---- MODULE Spec2Model ----
(***************************************************************************)
(* Model of the multi-quota token-bucket limiter of                       *)
(* src/src/utils/rate_limiter.py (class RateLimiter), of the single-key    *)
(* limiter and its decorator of src/src/security/rate_limiter.py, and of   *)
(* the client of src/src/scraper/youtube_api.py: its cost table and the    *)
(* quota checks and remote calls of its three methods.                     *)
(*                                                                         *)
(* Time is counted in ticks of one retry interval (time.sleep(0.1)), so a  *)
(* sleep ends once the clock has advanced by at least one tick.  Balances  *)
(* are floats in the code; here they are exact multiples of 1/TokenUnit of *)
(* a token, and the quota configurations are chosen so that every refill   *)
(* amount is such a multiple.                                              *)
(*                                                                         *)
(* threading.Lock has no owner: release() by any thread unlocks it, and    *)
(* release() of an unlocked lock raises RuntimeError.  locks[q] is 0 when  *)
(* the lock is free and otherwise the thread whose acquire() locked it.    *)
(*                                                                         *)
(* Every access to shared state (a lock operation, a read or a write of    *)
(* tokens[q] or last_refill[q]) is a step of its own, so that the          *)
(* interleavings of unprotected accesses are those the interpreter allows. *)
(***************************************************************************)
EXTENDS Integers, Sequences, FiniteSets, TLC

\* ---------------------------------------------------------------- bounds
NThreads == 2
MaxTime == 2
MaxCalls == 2
MaxCap == 2

\* timeout=None
NoTimeout == -1

Threads == 1..NThreads
Timeouts == {NoTimeout, 0, 1}

Min(a, b) == IF a < b THEN a ELSE b

VARIABLES
    quotas,       \* self.quotas: sequence of [tokens, interval]
    tokens,       \* self.tokens, in units of 1/TokenUnit token
    last_refill,  \* self.last_refill
    locks,        \* self.locks: 0 = unlocked, t = locked by an acquire() of t
    clock,        \* time.time(), in ticks
    th,           \* per thread: position and locals of the running call
    granted,      \* history: tokens granted by acquire calls that deducted
    buckets,      \* single-key limiter: self.buckets, key -> TokenBucket
    attached,     \* the owning object has the attribute _rate_limiter
    kt,           \* per thread: its calls of the single-key limiter
    last,         \* history: the last operation of the single-key limiter
    reads,        \* history: per key, the last get_remaining_tokens result
                  \* that no acquisition has followed
    lock,         \* single-key limiter: self._lock, 0 or the thread inside
    tally,        \* history: check_limit calls since the last create_limit,
                  \* and the time of that create_limit
    api           \* per thread: the client method it is in

\* the single-key limiter of src/src/security/rate_limiter.py
keyed == <<buckets, attached, kt, last, reads, lock, tally>>

vars == <<quotas, tokens, last_refill, locks, clock, th, granted, keyed, api>>

\* two quotas: 1 token per 2 ticks, and 2 tokens per 8 ticks
MultiQuotas == <<[tokens |-> 1, interval |-> 2], [tokens |-> 2, interval |-> 8]>>

\* two quotas, the tight one last: 2 tokens per 2 ticks, and 1 token per 8 ticks
TightLastQuotas == <<[tokens |-> 2, interval |-> 2], [tokens |-> 1, interval |-> 8]>>

\* units of balance per token: the longest configured interval, which every
\* configured interval divides, so that elapsed / interval * tokens is exact
TokenUnit == MultiQuotas[2].interval

NQ == Len(quotas)
Capacity(q) == quotas[q].tokens * TokenUnit

\* a thread that is not inside a call; calls = [acquire, status, tokens]: how
\* many calls of each operation the thread will still make, and the numbers
\* of tokens it asks for.  status is the dict get_quota_status builds;
\* history: prev is the status the thread's previous call returned, snap and
\* prev_snap say which acquire calls were still to come when the thread's
\* current and previous get_quota_status calls began; operation is the
\* operation kind of the client's _check_quota that made the acquire call
IdleThread(calls) ==
    [pc |-> "idle", op |-> "none", n |-> 0, timeout |-> NoTimeout,
     start_time |-> 0, q |-> 0, i |-> 0, acquired_locks |-> <<>>,
     pending |-> "none", now |-> 0, elapsed |-> 0, val |-> 0, wake |-> 0,
     result |-> "none", deducted |-> 0, calls |-> calls,
     status |-> <<>>, prev |-> <<>>, snap |-> <<>>, prev_snap |-> <<>>,
     operation |-> "none"]

\* thread me after its call has ended with the given result; the call's
\* arguments and what it deducted are kept until the thread's next call
Ended(me, result) ==
    [IdleThread(me.calls) EXCEPT !.result = result, !.op = me.op, !.n = me.n,
                                 !.timeout = me.timeout, !.deducted = me.deducted,
                                 !.status = me.status, !.prev = me.prev,
                                 !.snap = me.snap, !.prev_snap = me.prev_snap,
                                 !.operation = me.operation]

\* RateLimiter.__init__ for the given quota configuration
InitLimiter(config, calls) ==
    /\ quotas = config
    /\ tokens = [q \in 1..Len(config) |-> config[q].tokens * TokenUnit]
    /\ last_refill = [q \in 1..Len(config) |-> 0]
    /\ locks = [q \in 1..Len(config) |-> 0]
    /\ clock = 0
    /\ th = [t \in Threads |-> IdleThread(calls[t])]
    /\ granted = 0

NoCalls == [acquire |-> 0, status |-> 0, tokens |-> {}]

\* ---- the single-key limiter before any call

\* no read recorded
NoRead == [tokens |-> -1, at |-> -1]

NoOp == [op |-> "none", key |-> "", n |-> 0, result |-> "none", value |-> 0,
         pre |-> <<>>, at |-> 0, since |-> NoRead]

\* a thread outside the wrapper that will make `left` more calls, with keys
\* and token counts drawn from the given sets
IdleCaller(left, keys, requests) ==
    [pc |-> "idle", key |-> "", n |-> 0, left |-> left, result |-> "none",
     keys |-> keys, requests |-> requests]

\* no check_limit call has ended on the bucket created at time 0
NoTally == [checked |-> 0, admitted |-> 0, since |-> 0]

\* a thread outside the client's methods that will call `left` more of the
\* given methods.  history: acquired and executed count the acquire calls
\* that returned True and the remote calls of the thread's current or last
\* method call, refused the method calls that returned their empty result
\* because _check_quota returned False
IdleClient(left, methods) ==
    [pc |-> "idle", method |-> "none", left |-> left, methods |-> methods,
     items |-> 0, pages |-> 0, acquired |-> 0, executed |-> 0,
     returned |-> "none", refused |-> 0]

NoRequests == [t \in Threads |-> IdleClient(0, {})]

\* no limiter exists and no thread will use one; no thread uses the client's
\* methods
NoKeyedCalls ==
    /\ buckets = <<>>
    /\ attached = FALSE
    /\ kt = [t \in Threads |-> IdleCaller(0, {}, {})]
    /\ last = NoOp
    /\ reads = <<>>
    /\ lock = 0
    /\ tally = NoTally
    /\ api = NoRequests

\* one thread calling acquire and one calling get_quota_status
Init ==
    InitLimiter(MultiQuotas,
                [t \in Threads |-> IF t = 1 THEN [acquire |-> MaxCalls, status |-> 0, tokens |-> 1..2]
                                   ELSE IF t = 2 THEN [acquire |-> 0, status |-> MaxCalls, tokens |-> {}]
                                   ELSE NoCalls])
    /\ NoKeyedCalls

\* two threads calling acquire
InitAcquirers ==
    InitLimiter(TightLastQuotas,
                [t \in Threads |-> IF t = 1 THEN [acquire |-> MaxCalls, status |-> 0, tokens |-> 1..2]
                                   ELSE IF t = 2 THEN [acquire |-> 1, status |-> 0, tokens |-> {1}]
                                   ELSE NoCalls])
    /\ NoKeyedCalls

\* every thread calls acquire once, on a limiter with a single quota
InitOneQuota ==
    /\ \E c \in 1..MaxCap :
          InitLimiter(<<[tokens |-> c, interval |-> TokenUnit]>>,
                      [t \in Threads |-> [acquire |-> 1, status |-> 0, tokens |-> {1}]])
    /\ NoKeyedCalls


\* thread t's record with the given fields changed
Set(t, r) == th' = [th EXCEPT ![t] = r]

\* time.time() - start_time > timeout, under "if timeout and ..."; a timeout
\* is counted in half ticks, so that timeout 1 is shorter than one sleep
Expired(t) == th[t].timeout > 0 /\ 2 * (clock - th[t].start_time) > th[t].timeout

\* new_tokens = (elapsed / config['interval']) * config['tokens']
NewTokens(q, elapsed) == (elapsed * quotas[q].tokens * TokenUnit) \div quotas[q].interval

\* ------------------------------------------------------------ acquire

\* a thread calls acquire(tokens=n, timeout=to): start_time, then the first
\* pass of the while loop (can_acquire = True, acquired_locks = [])
StartAcquire(t) ==
    /\ th[t].pc = "idle" /\ th[t].calls.acquire > 0
    /\ \E n \in th[t].calls.tokens, to \in Timeouts :
          Set(t, [IdleThread([th[t].calls EXCEPT !.acquire = @ - 1]) EXCEPT
                    !.pc = "lock", !.op = "acquire", !.n = n, !.timeout = to,
                    !.start_time = clock, !.q = 1])
    /\ UNCHANGED <<quotas, tokens, last_refill, locks, clock, granted, keyed, api>>

\* TryLock with a lock that never refuses
TryLockUnchecked(t) ==
    LET me == th[t] q == me.q IN
    /\ me.pc = "lock"
    /\ locks' = [locks EXCEPT ![q] = t]
    /\ Set(t, [me EXCEPT !.acquired_locks = Append(@, q),
                         !.pc = IF q = NQ THEN "refill_now" ELSE "lock",
                         !.q = IF q = NQ THEN 1 ELSE q + 1])
    /\ UNCHANGED <<quotas, tokens, last_refill, clock, granted, keyed, api>>

\* self.locks[quota_name].acquire(blocking=False) for the next quota
TryLock(t) ==
    LET me == th[t] q == me.q IN
    /\ me.pc = "lock"
    /\ IF locks[q] = 0
       THEN /\ locks' = [locks EXCEPT ![q] = t]
            /\ Set(t, [me EXCEPT !.acquired_locks = Append(@, q),
                                 !.pc = IF q = NQ THEN "refill_now" ELSE "lock",
                                 !.q = IF q = NQ THEN 1 ELSE q + 1])
       ELSE /\ UNCHANGED locks
            /\ IF me.acquired_locks = <<>>
               THEN Set(t, [me EXCEPT !.pc = "sleep_lock", !.wake = clock + 1])
               ELSE Set(t, [me EXCEPT !.pc = "release_fail", !.i = 1])
    /\ UNCHANGED <<quotas, tokens, last_refill, clock, granted, keyed, api>>

\* the release loop after a failed try-lock; acquired_locks is left as it is
ReleaseAcquired(t) ==
    LET me == th[t] l == me.acquired_locks[me.i] IN
    /\ me.pc = "release_fail"
    /\ IF locks[l] = 0
       THEN \* RuntimeError: release unlocked lock; control goes to finally
            /\ UNCHANGED locks
            /\ Set(t, [me EXCEPT !.pc = "finally", !.pending = "raise", !.i = 1])
       ELSE /\ locks' = [locks EXCEPT ![l] = 0]
            /\ IF me.i = Len(me.acquired_locks)
               THEN Set(t, [me EXCEPT !.pc = "sleep_lock", !.i = 0, !.wake = clock + 1])
               ELSE Set(t, [me EXCEPT !.i = @ + 1])
    /\ UNCHANGED <<quotas, tokens, last_refill, clock, granted, keyed, api>>

\* time.sleep(0.1) is over; the deadline test; return False or continue
WakeAfterLockFailure(t) ==
    LET me == th[t] IN
    /\ me.pc = "sleep_lock" /\ clock >= me.wake
    /\ Set(t, [me EXCEPT !.pc = "finally", !.i = 1, !.wake = 0,
                         !.pending = IF Expired(t) THEN "false" ELSE "continue"])
    /\ UNCHANGED <<quotas, tokens, last_refill, locks, clock, granted, keyed, api>>

\* ------------------------------------------------------ _refill_tokens

\* now = time.time(); elapsed = now - self.last_refill[quota_name]
RefillNow(t) ==
    LET me == th[t] IN
    /\ me.pc = "refill_now"
    /\ Set(t, [me EXCEPT !.pc = "refill_read", !.now = clock,
                         !.elapsed = clock - last_refill[me.q]])
    /\ UNCHANGED <<quotas, tokens, last_refill, locks, clock, granted, keyed, api>>

\* min(config['tokens'], self.tokens[quota_name] + new_tokens) is computed
RefillRead(t) ==
    LET me == th[t] IN
    /\ me.pc = "refill_read"
    /\ Set(t, [me EXCEPT !.pc = "refill_write", !.elapsed = 0,
                         !.val = Min(Capacity(me.q), tokens[me.q] + NewTokens(me.q, me.elapsed))])
    /\ UNCHANGED <<quotas, tokens, last_refill, locks, clock, granted, keyed, api>>

\* self.tokens[quota_name] = ...
RefillWrite(t) ==
    LET me == th[t] IN
    /\ me.pc = "refill_write"
    /\ tokens' = [tokens EXCEPT ![me.q] = me.val]
    /\ Set(t, [me EXCEPT !.pc = "refill_stamp", !.val = 0])
    /\ UNCHANGED <<quotas, last_refill, locks, clock, granted, keyed, api>>

\* self.last_refill[quota_name] = now
RefillStamp(t) ==
    LET me == th[t] IN
    /\ me.pc = "refill_stamp"
    /\ last_refill' = [last_refill EXCEPT ![me.q] = me.now]
    /\ Set(t, IF me.op = "acquire"
              THEN [me EXCEPT !.pc = "check", !.now = 0]
              ELSE [me EXCEPT !.pc = "status_report"])
    /\ UNCHANGED <<quotas, tokens, locks, clock, granted, keyed, api>>

\* --------------------------------------------- acquire, all locks held

\* CheckTokens consuming from each quota as soon as it is found sufficient
CheckAndDeduct(t) ==
    LET me == th[t] IN
    /\ me.pc = "check"
    /\ IF tokens[me.q] < me.n * TokenUnit
       THEN /\ UNCHANGED tokens
            /\ Set(t, [me EXCEPT !.pc = "deadline"])
       ELSE /\ tokens' = [tokens EXCEPT ![me.q] = @ - me.n * TokenUnit]
            /\ Set(t, IF me.q = NQ
                      THEN [me EXCEPT !.pc = "finally", !.pending = "true", !.i = 1,
                                      !.deducted = @ + 1]
                      ELSE [me EXCEPT !.pc = "refill_now", !.q = @ + 1,
                                      !.deducted = @ + 1])
    /\ UNCHANGED <<quotas, last_refill, locks, clock, granted, keyed, api>>

\* if self.tokens[quota_name] < tokens: can_acquire = False; break
CheckTokens(t) ==
    LET me == th[t] IN
    /\ me.pc = "check"
    /\ Set(t, IF tokens[me.q] < me.n * TokenUnit
              THEN [me EXCEPT !.pc = "deadline"]
              ELSE IF me.q = NQ
                   THEN [me EXCEPT !.pc = "deduct_read", !.q = 1]
                   ELSE [me EXCEPT !.pc = "refill_now", !.q = @ + 1])
    /\ UNCHANGED <<quotas, tokens, last_refill, locks, clock, granted, keyed, api>>

\* self.tokens[quota_name] -= tokens: the read
DeductRead(t) ==
    LET me == th[t] IN
    /\ me.pc = "deduct_read"
    /\ Set(t, [me EXCEPT !.pc = "deduct_write", !.val = tokens[me.q]])
    /\ UNCHANGED <<quotas, tokens, last_refill, locks, clock, granted, keyed, api>>

\* self.tokens[quota_name] -= tokens: the write; after the last one, return True
DeductWrite(t) ==
    LET me == th[t] IN
    /\ me.pc = "deduct_write"
    /\ tokens' = [tokens EXCEPT ![me.q] = me.val - me.n * TokenUnit]
    /\ Set(t, IF me.q = NQ
              THEN [me EXCEPT !.pc = "finally", !.pending = "true", !.i = 1,
                              !.val = 0, !.deducted = @ + 1]
              ELSE [me EXCEPT !.pc = "deduct_read", !.q = @ + 1,
                              !.val = 0, !.deducted = @ + 1])
    /\ UNCHANGED <<quotas, last_refill, locks, clock, granted, keyed, api>>

\* not enough tokens: the deadline test; return False, or time.sleep(0.1)
\* inside the try block
CheckDeadline(t) ==
    LET me == th[t] IN
    /\ me.pc = "deadline"
    /\ Set(t, IF Expired(t)
              THEN [me EXCEPT !.pc = "finally", !.pending = "false", !.i = 1]
              ELSE [me EXCEPT !.pc = "sleep_tokens", !.wake = clock + 1])
    /\ UNCHANGED <<quotas, tokens, last_refill, locks, clock, granted, keyed, api>>

\* the sleep is over; the try block ends and the loop goes round
WakeAfterShortage(t) ==
    LET me == th[t] IN
    /\ me.pc = "sleep_tokens" /\ clock >= me.wake
    /\ Set(t, [me EXCEPT !.pc = "finally", !.pending = "continue", !.i = 1, !.wake = 0])
    /\ UNCHANGED <<quotas, tokens, last_refill, locks, clock, granted, keyed, api>>

\* finally: lock.release() for the next lock of acquired_locks
FinallyRelease(t) ==
    LET me == th[t] l == me.acquired_locks[me.i] IN
    /\ me.pc = "finally" /\ me.i <= Len(me.acquired_locks)
    /\ IF locks[l] = 0
       THEN \* RuntimeError leaves acquire; the remaining locks stay as they are
            /\ UNCHANGED locks
            /\ Set(t, Ended(me, "raised"))
       ELSE /\ locks' = [locks EXCEPT ![l] = 0]
            /\ Set(t, [me EXCEPT !.i = @ + 1])
    /\ UNCHANGED <<quotas, tokens, last_refill, clock, granted, keyed, api>>

\* the finally block is done: return, re-raise, or the next pass of the loop
Finish(t) ==
    LET me == th[t] IN
    /\ me.pc = "finally" /\ me.i > Len(me.acquired_locks)
    /\ Set(t, IF me.pending = "continue"
              THEN [me EXCEPT !.pc = "lock", !.q = 1, !.i = 0, !.pending = "none",
                              !.acquired_locks = <<>>]
              ELSE Ended(me, IF me.pending = "raise" THEN "raised" ELSE me.pending))
    /\ granted' = IF me.pending = "true" THEN granted + me.n ELSE granted
    /\ UNCHANGED <<quotas, tokens, last_refill, locks, clock, keyed, api>>

\* --------------------------------------------------- get_quota_status

\* the acquire calls each thread has still to make, -1 for a thread inside a call
AcquiresToCome(t) ==
    [u \in Threads |-> IF u = t \/ th[u].pc = "idle" THEN th[u].calls.acquire ELSE -1]

\* status = {}; the first quota of the for loop
StartStatus(t) ==
    /\ th[t].pc = "idle" /\ th[t].calls.status > 0
    /\ Set(t, [IdleThread([th[t].calls EXCEPT !.status = @ - 1]) EXCEPT
                 !.pc = "status_lock", !.op = "status", !.q = 1,
                 !.prev = th[t].status, !.prev_snap = th[t].snap,
                 !.snap = AcquiresToCome(t)])
    /\ UNCHANGED <<quotas, tokens, last_refill, locks, clock, granted, keyed, api>>

\* with self.locks[quota_name]: a blocking acquire
StatusLock(t) ==
    LET me == th[t] IN
    /\ me.pc = "status_lock" /\ locks[me.q] = 0
    /\ locks' = [locks EXCEPT ![me.q] = t]
    /\ Set(t, [me EXCEPT !.pc = "refill_now"])
    /\ UNCHANGED <<quotas, tokens, last_refill, clock, granted, keyed, api>>

\* status[quota_name] = {'available_tokens': self.tokens[quota_name], ...};
\* history: at is the time up to which the reported balance was refilled
StatusReport(t) ==
    LET me == th[t] IN
    /\ me.pc = "status_report"
    /\ Set(t, [me EXCEPT !.pc = "status_release", !.now = 0,
                         !.status = Append(@, [available_tokens |-> tokens[me.q],
                                               max_tokens |-> quotas[me.q].tokens,
                                               refill_interval |-> quotas[me.q].interval,
                                               at |-> me.now])])
    /\ UNCHANGED <<quotas, tokens, last_refill, locks, clock, granted, keyed, api>>

\* the end of the with block: release; then the next quota, or return status
StatusRelease(t) ==
    LET me == th[t] IN
    /\ me.pc = "status_release"
    /\ IF locks[me.q] = 0
       THEN /\ UNCHANGED locks
            /\ Set(t, Ended(me, "raised"))
       ELSE /\ locks' = [locks EXCEPT ![me.q] = 0]
            /\ Set(t, IF me.q = NQ
                      THEN Ended(me, "status")
                      ELSE [me EXCEPT !.pc = "status_lock", !.q = @ + 1])
    /\ UNCHANGED <<quotas, tokens, last_refill, clock, granted, keyed, api>>

\* ------------------------------------------------- single-key limiter
\* src/src/security/rate_limiter.py.  create_limit, check_limit and
\* get_remaining_tokens run from their first to their last statement inside
\* "with self._lock", a blocking lock that nothing else takes or releases, and
\* touch self.buckets only there: each is one step.  The wrapper of the
\* rate_limit decorator takes no lock: each of its statements is a step.

\* a bucket's refill_rate is in units of balance per tick: half a token per
\* tick, which is 5 tokens per second
RefillRates == {TokenUnit \div 2}

\* the keys of the decorated methods of TopicAnalyzer, and their tokens
Keys == {"extract_phrases", "identify_topics"}
DecoratedTokens(key) == IF key = "extract_phrases" THEN 1 ELSE 2

\* create_limit(key, capacity=100, refill_rate=10) of the wrapper: 10 tokens
\* per second are one token per tick
DefaultCapacity == 100
DefaultRefillRate == TokenUnit

\* the token counts check_limit is called with
KeyedRequests == -1..2

\* TokenBucket(capacity, refill_rate, tokens=float(capacity), last_refill=time.time())
TokenBucket(capacity, refill_rate, now) ==
    [capacity |-> capacity, refill_rate |-> refill_rate,
     tokens |-> capacity * TokenUnit, last_refill |-> now]

\* d[k] = v; del d[k]
Put(d, k, v) == [x \in DOMAIN d \cup {k} |-> IF x = k THEN v ELSE d[x]]
Drop(d, k) == [x \in DOMAIN d \ {k} |-> d[x]]

\* RefillBucket without the cap at the capacity
RefillBucketUncapped(bucket, now) ==
    [bucket EXCEPT !.tokens = @ + (now - bucket.last_refill) * bucket.refill_rate,
                   !.last_refill = now]

\* RateLimiter._refill_tokens(bucket) at time now
RefillBucket(bucket, now) ==
    [bucket EXCEPT !.tokens = Min(bucket.capacity * TokenUnit,
                                  @ + (now - bucket.last_refill) * bucket.refill_rate),
                   !.last_refill = now]

\* CheckBucket consuming whether or not the balance covers the request
CheckBucketAlways(bucket, n, now) ==
    LET b == RefillBucket(bucket, now) IN
    [result |-> b.tokens >= n * TokenUnit, bucket |-> [b EXCEPT !.tokens = @ - n * TokenUnit]]

\* check_limit on a registered key: refill; if bucket.tokens >= tokens then
\* bucket.tokens -= tokens and True, else False
CheckBucket(bucket, n, now) ==
    LET b == RefillBucket(bucket, now) IN
    IF b.tokens >= n * TokenUnit
    THEN [result |-> TRUE, bucket |-> [b EXCEPT !.tokens = @ - n * TokenUnit]]
    ELSE [result |-> FALSE, bucket |-> b]

\* CheckLimitOutcome refusing a key that has no bucket
CheckLimitFailClosed(key, n) ==
    IF key \notin DOMAIN buckets
    THEN [result |-> FALSE, buckets |-> buckets]
    ELSE LET c == CheckBucket(buckets[key], n, clock) IN
         [result |-> c.result, buckets |-> Put(buckets, key, c.bucket)]

\* check_limit(key, tokens): its result and self.buckets after it
CheckLimitOutcome(key, n) ==
    IF key \notin DOMAIN buckets
    THEN [result |-> TRUE, buckets |-> buckets]
    ELSE LET c == CheckBucket(buckets[key], n, clock) IN
         [result |-> c.result, buckets |-> Put(buckets, key, c.bucket)]

\* the record of one operation: pre is self.buckets before it, since the
\* last get_remaining_tokens result for the key that no acquisition followed
Op(op, key, n, result, value, since) ==
    [op |-> op, key |-> key, n |-> n, result |-> result, value |-> value,
     pre |-> buckets, at |-> clock, since |-> since]

multi == <<quotas, tokens, last_refill, locks, th, granted>>

\* CreateLimit keeping the bucket of a key that is already registered
CreateLimitOnce(t) ==
    /\ kt[t].pc = "idle" /\ kt[t].left > 0 /\ attached
    /\ \E key \in kt[t].keys, capacity \in 1..MaxCap, refill_rate \in RefillRates :
          /\ buckets' = IF key \in DOMAIN buckets THEN buckets
                        ELSE Put(buckets, key, TokenBucket(capacity, refill_rate, clock))
          /\ last' = Op("create_limit", key, capacity, "none", refill_rate, NoRead)
          /\ reads' = Drop(reads, key)
    /\ kt' = [kt EXCEPT ![t].left = @ - 1, ![t].result = "none"]
    /\ UNCHANGED <<multi, clock, lock, tally, api, attached>>

\* create_limit(key, capacity, refill_rate) on the object's limiter
CreateLimit(t) ==
    /\ kt[t].pc = "idle" /\ kt[t].left > 0 /\ attached
    /\ \E key \in kt[t].keys, capacity \in 1..MaxCap, refill_rate \in RefillRates :
          /\ buckets' = Put(buckets, key, TokenBucket(capacity, refill_rate, clock))
          /\ last' = Op("create_limit", key, capacity, "none", refill_rate, NoRead)
          /\ reads' = Drop(reads, key)
    /\ kt' = [kt EXCEPT ![t].left = @ - 1, ![t].result = "none"]
    /\ UNCHANGED <<multi, clock, lock, tally, api, attached>>

\* check_limit(key, tokens) on the object's limiter
CheckLimit(t) ==
    /\ kt[t].pc = "idle" /\ kt[t].left > 0 /\ attached
    /\ \E key \in kt[t].keys, n \in kt[t].requests :
          LET out == CheckLimitOutcome(key, n) IN
          /\ buckets' = out.buckets
          /\ last' = Op("check_limit", key, n, IF out.result THEN "true" ELSE "false",
                        0, NoRead)
          /\ reads' = IF out.result THEN Drop(reads, key) ELSE reads
    /\ kt' = [kt EXCEPT ![t].left = @ - 1, ![t].result = "none"]
    /\ UNCHANGED <<multi, clock, lock, tally, api, attached>>

\* get_remaining_tokens(key) on the object's limiter
GetRemainingTokens(t) ==
    /\ kt[t].pc = "idle" /\ kt[t].left > 0 /\ attached
    /\ \E key \in kt[t].keys :
          IF key \notin DOMAIN buckets
          THEN /\ last' = Op("get_remaining_tokens", key, 0, "None", 0, NoRead)
               /\ UNCHANGED <<buckets, reads>>
          ELSE LET b == RefillBucket(buckets[key], clock) IN
               /\ buckets' = Put(buckets, key, b)
               /\ last' = Op("get_remaining_tokens", key, 0, "tokens", b.tokens,
                             IF key \in DOMAIN reads THEN reads[key] ELSE NoRead)
               /\ reads' = Put(reads, key, [tokens |-> b.tokens, at |-> clock])
    /\ kt' = [kt EXCEPT ![t].left = @ - 1, ![t].result = "none"]
    /\ UNCHANGED <<multi, clock, lock, tally, api, attached>>

\* ------------------------------------------------ rate_limit decorator

\* a decorated method is called: if not hasattr(self, '_rate_limiter')
WrapperEnter(t) ==
    /\ kt[t].pc = "idle" /\ kt[t].left > 0
    /\ \E key \in kt[t].keys :
          kt' = [kt EXCEPT ![t].pc = IF attached THEN "check" ELSE "attach",
                           ![t].key = key, ![t].n = DecoratedTokens(key),
                           ![t].left = @ - 1, ![t].result = "none"]
    /\ UNCHANGED <<multi, clock, lock, tally, api, buckets, attached, last, reads>>

\* self._rate_limiter = RateLimiter()
WrapperAttach(t) ==
    /\ kt[t].pc = "attach"
    /\ attached' = TRUE
    /\ buckets' = <<>>
    /\ last' = Op("RateLimiter", "", 0, "none", 0, NoRead)
    /\ reads' = <<>>
    /\ kt' = [kt EXCEPT ![t].pc = "create"]
    /\ UNCHANGED <<multi, clock, lock, tally, api>>

\* self._rate_limiter.create_limit(key, capacity=100, refill_rate=10)
WrapperCreate(t) ==
    LET me == kt[t] IN
    /\ me.pc = "create"
    /\ buckets' = Put(buckets, me.key, TokenBucket(DefaultCapacity, DefaultRefillRate, clock))
    /\ last' = Op("create_limit", me.key, DefaultCapacity, "none", DefaultRefillRate, NoRead)
    /\ reads' = Drop(reads, me.key)
    /\ kt' = [kt EXCEPT ![t].pc = "check"]
    /\ UNCHANGED <<multi, clock, lock, tally, api, attached>>

\* WrapperCheck running the wrapped function whatever check_limit returns
WrapperCheckIgnored(t) ==
    LET me == kt[t] out == CheckLimitOutcome(me.key, me.n) IN
    /\ me.pc = "check"
    /\ buckets' = out.buckets
    /\ last' = Op("wrapper", me.key, me.n, "returned", 0, NoRead)
    /\ reads' = IF out.result THEN Drop(reads, me.key) ELSE reads
    /\ kt' = [kt EXCEPT ![t].pc = "idle", ![t].result = "returned"]
    /\ UNCHANGED <<multi, clock, lock, tally, api, attached>>

\* if not self._rate_limiter.check_limit(key, tokens): raise
\* RateLimitExceeded; return func(self, *args, **kwargs)
WrapperCheck(t) ==
    LET me == kt[t] out == CheckLimitOutcome(me.key, me.n) IN
    /\ me.pc = "check"
    /\ buckets' = out.buckets
    /\ last' = Op("wrapper", me.key, me.n,
                  IF out.result THEN "returned" ELSE "RateLimitExceeded", 0, NoRead)
    /\ reads' = IF out.result THEN Drop(reads, me.key) ELSE reads
    /\ kt' = [kt EXCEPT ![t].pc = "idle",
                        ![t].result = IF out.result THEN "returned" ELSE "RateLimitExceeded"]
    /\ UNCHANGED <<multi, clock, lock, tally, api, attached>>

\* ------------------------------ single-key limiter, statement by statement
\* create_limit, check_limit and get_remaining_tokens once more, with
\* self._lock and every statement of the with block as a step, so that what
\* the lock excludes is checked and not assumed.  While a thread is inside a
\* with block, `bucket` is the object self.buckets holds under its key.

\* the positions inside a with block
Locked == {"check_get", "check_refill", "check_compare", "check_deduct",
           "remaining_get", "remaining_refill", "create_put", "exit"}

\* EnterCheckLimit with a lock that never makes a thread wait
EnterCheckLimitUnguarded(t) ==
    /\ kt[t].pc = "idle" /\ kt[t].left > 0 /\ attached
    /\ \E key \in kt[t].keys, n \in kt[t].requests :
          kt' = [kt EXCEPT ![t].pc = "check_get", ![t].key = key, ![t].n = n,
                           ![t].left = @ - 1, ![t].result = "none"]
    /\ lock' = t
    /\ UNCHANGED <<multi, clock, buckets, attached, last, reads, tally, api>>

\* check_limit(key, tokens): with self._lock
EnterCheckLimit(t) ==
    /\ kt[t].pc = "idle" /\ kt[t].left > 0 /\ attached
    /\ lock = 0
    /\ \E key \in kt[t].keys, n \in kt[t].requests :
          kt' = [kt EXCEPT ![t].pc = "check_get", ![t].key = key, ![t].n = n,
                           ![t].left = @ - 1, ![t].result = "none"]
    /\ lock' = t
    /\ UNCHANGED <<multi, clock, buckets, attached, last, reads, tally, api>>

\* get_remaining_tokens(key): with self._lock
EnterGetRemainingTokens(t) ==
    /\ kt[t].pc = "idle" /\ kt[t].left > 0 /\ attached
    /\ lock = 0
    /\ \E key \in kt[t].keys :
          kt' = [kt EXCEPT ![t].pc = "remaining_get", ![t].key = key, ![t].n = 0,
                           ![t].left = @ - 1, ![t].result = "none"]
    /\ lock' = t
    /\ UNCHANGED <<multi, clock, buckets, attached, last, reads, tally, api>>

\* create_limit(key, capacity, refill_rate): with self._lock; n is the capacity
EnterCreateLimit(t) ==
    /\ kt[t].pc = "idle" /\ kt[t].left > 0 /\ attached
    /\ lock = 0
    /\ \E key \in kt[t].keys, capacity \in 1..MaxCap :
          kt' = [kt EXCEPT ![t].pc = "create_put", ![t].key = key, ![t].n = capacity,
                           ![t].left = @ - 1, ![t].result = "none"]
    /\ lock' = t
    /\ UNCHANGED <<multi, clock, buckets, attached, last, reads, tally, api>>

\* bucket = self.buckets.get(key); if not bucket: return True / return None
LockedGet(t) ==
    LET me == kt[t] IN
    /\ me.pc \in {"check_get", "remaining_get"}
    /\ kt' = [kt EXCEPT ![t] =
                IF me.key \in DOMAIN buckets
                THEN [me EXCEPT !.pc = IF me.pc = "check_get" THEN "check_refill"
                                       ELSE "remaining_refill"]
                ELSE [me EXCEPT !.pc = "exit",
                                !.result = IF me.pc = "check_get" THEN "true" ELSE "None"]]
    /\ UNCHANGED <<multi, clock, buckets, attached, last, reads, lock, tally, api>>

\* self._refill_tokens(bucket); in get_remaining_tokens: return bucket.tokens
LockedRefill(t) ==
    LET me == kt[t] IN
    /\ me.pc \in {"check_refill", "remaining_refill"}
    /\ buckets' = Put(buckets, me.key, RefillBucket(buckets[me.key], clock))
    /\ kt' = [kt EXCEPT ![t] =
                IF me.pc = "check_refill"
                THEN [me EXCEPT !.pc = "check_compare"]
                ELSE [me EXCEPT !.pc = "exit", !.result = "tokens"]]
    /\ UNCHANGED <<multi, clock, attached, last, reads, lock, tally, api>>

\* if bucket.tokens >= tokens; otherwise return False
LockedCompare(t) ==
    LET me == kt[t] IN
    /\ me.pc = "check_compare"
    /\ kt' = [kt EXCEPT ![t] =
                IF buckets[me.key].tokens >= me.n * TokenUnit
                THEN [me EXCEPT !.pc = "check_deduct"]
                ELSE [me EXCEPT !.pc = "exit", !.result = "false"]]
    /\ UNCHANGED <<multi, clock, buckets, attached, last, reads, lock, tally, api>>

\* bucket.tokens -= tokens; return True
LockedDeduct(t) ==
    LET me == kt[t] IN
    /\ me.pc = "check_deduct"
    /\ buckets' = [buckets EXCEPT ![me.key].tokens = @ - me.n * TokenUnit]
    /\ kt' = [kt EXCEPT ![t].pc = "exit", ![t].result = "true"]
    /\ UNCHANGED <<multi, clock, attached, last, reads, lock, tally, api>>

\* self.buckets[key] = TokenBucket(...); history: the tally starts again
LockedPut(t) ==
    LET me == kt[t] IN
    /\ me.pc = "create_put"
    /\ \E refill_rate \in RefillRates :
          buckets' = Put(buckets, me.key, TokenBucket(me.n, refill_rate, clock))
    /\ tally' = [NoTally EXCEPT !.since = clock]
    /\ kt' = [kt EXCEPT ![t].pc = "exit"]
    /\ UNCHANGED <<multi, clock, attached, last, reads, lock, api>>

\* the end of the with block releases self._lock, and the call returns;
\* history: a check_limit call that returned is tallied
LockedExit(t) ==
    LET me == kt[t] IN
    /\ me.pc = "exit"
    /\ lock' = 0
    /\ tally' = IF me.result \in {"true", "false"}
                THEN [tally EXCEPT !.checked = @ + 1,
                                   !.admitted = @ + IF me.result = "true" THEN 1 ELSE 0]
                ELSE tally
    /\ kt' = [kt EXCEPT ![t].pc = "idle"]
    /\ UNCHANGED <<multi, clock, buckets, attached, last, reads, api>>

\* ------------------------------------------------------ YouTubeAPI
\* src/src/scraper/youtube_api.py: the client's limiter and cost table

\* DEFAULT_QUOTAS, intervals in ticks: 10000 per day, 10 per second, 100 per
\* 100 seconds.  A refill is rounded down to a whole unit of balance.
ClientQuotas ==
    <<[tokens |-> 10000, interval |-> 864000],
      [tokens |-> 10, interval |-> 10],
      [tokens |-> 100, interval |-> 1000]>>

QUOTA_COSTS == [list_videos |-> 1, list_comments |-> 1, search_videos |-> 100]

\* the operation kinds _check_quota is called with: the listed ones and one
\* that the table does not list
Operations == {"list_videos", "list_comments", "search_videos", "list_channels"}

\* QuotaCost charging one token for every operation kind
QuotaCostFlat(operation) == QUOTA_COSTS["list_videos"]

\* self.QUOTA_COSTS.get(operation, 1)
QuotaCost(operation) ==
    IF operation \in DOMAIN QUOTA_COSTS THEN QUOTA_COSTS[operation] ELSE 1

\* _check_quota(operation): cost = ...; self.rate_limiter.acquire(tokens=cost,
\* timeout=timeout), with the timeout None that every caller leaves
CheckQuota(t) ==
    /\ th[t].pc = "idle" /\ th[t].calls.acquire > 0
    /\ \E operation \in Operations :
          Set(t, [IdleThread([th[t].calls EXCEPT !.acquire = @ - 1]) EXCEPT
                    !.pc = "lock", !.op = "acquire", !.operation = operation,
                    !.n = QuotaCost(operation), !.timeout = NoTimeout,
                    !.start_time = clock, !.q = 1])
    /\ UNCHANGED <<quotas, tokens, last_refill, locks, clock, granted, keyed, api>>

\* ---------------------------------------------- YouTubeAPI, the methods
\* get_video_metadata, get_video_comments and search_videos.  A remote call
\* is request.execute(); what it answers is drawn from the answers that
\* decide how the method goes on.

Methods == {"get_video_metadata", "get_video_comments", "search_videos"}

\* the operation kind a method passes to its first _check_quota
OperationOf(method) ==
    CASE method = "get_video_metadata" -> "list_videos"
      [] method = "get_video_comments" -> "list_comments"
      [] method = "search_videos" -> "search_videos"

\* the most pages of comments a video has, and the most videos a search finds
MaxPages == 2
MaxItems == 1

\* thread t's locals at the start of the acquire call of _check_quota(operation)
Request(t, operation) ==
    [IdleThread(th[t].calls) EXCEPT
        !.pc = "lock", !.op = "acquire", !.operation = operation,
        !.n = QuotaCost(operation), !.timeout = NoTimeout,
        !.start_time = clock, !.q = 1]

\* thread t's method goes on as a, and its limiter call as r
Step(t, a, r) ==
    /\ api' = [api EXCEPT ![t] = a]
    /\ th' = [th EXCEPT ![t] = r]

\* the method returns
Return(me, value) == [me EXCEPT !.pc = "idle", !.returned = value]

\* a method is called: the argument is validated, then the first
\* _check_quota (lines 64-68, 125-129, 226-230)
CallMethod(t) ==
    /\ api[t].pc = "idle" /\ api[t].left > 0 /\ th[t].pc = "idle"
    /\ \E method \in api[t].methods, valid \in BOOLEAN :
          LET me == [IdleClient(api[t].left - 1, api[t].methods) EXCEPT
                        !.method = method, !.refused = api[t].refused] IN
          IF valid
          THEN Step(t, [me EXCEPT !.pc = "quota"], Request(t, OperationOf(method)))
          ELSE Step(t, Return(me, "invalid"), th[t])
    /\ UNCHANGED <<quotas, tokens, last_refill, locks, clock, granted, keyed>>

\* after the get_video_metadata call for one video of a search: the next
\* video, or return videos
NextItem(t, me) ==
    IF me.items > 1
    THEN Step(t, [me EXCEPT !.items = @ - 1], Request(t, "list_videos"))
    ELSE Step(t, Return([me EXCEPT !.items = 0], "videos"), th[t])

\* what follows a first _check_quota whose acquire ended with res
QuotaOutcome(t, res) ==
    LET me == api[t]
        operation == th[t].operation
        nested == me.method = "search_videos" /\ operation = "list_videos"
        got == [me EXCEPT !.acquired = @ + 1]
        done == [got EXCEPT !.executed = @ + 1]
    IN
    CASE res = "raised" ->
           \* RuntimeError leaves the method, or is caught by search_videos
           Step(t, Return(me, IF nested THEN "empty" ELSE "raised"), th[t])
      [] res = "false" ->
           IF nested THEN NextItem(t, me)
           ELSE Step(t, Return([me EXCEPT !.refused = @ + 1], "empty"), th[t])
      [] res = "true" /\ operation = "list_comments" ->
           \* the request is built; the while loop begins with _check_quota
           Step(t, [got EXCEPT !.pc = "page_quota"], Request(t, "list_comments"))
      [] res = "true" /\ operation = "search_videos" ->
           \E items \in 0..MaxItems :
               IF items = 0
               THEN Step(t, Return(done, "videos"), th[t])
               ELSE Step(t, [done EXCEPT !.items = items], Request(t, "list_videos"))
      [] res = "true" /\ operation = "list_videos" ->
           IF nested THEN NextItem(t, done)
           ELSE \E found \in BOOLEAN :
                    Step(t, Return(done, IF found THEN "metadata" ELSE "empty"), th[t])

\* AfterQuota going on as if _check_quota had returned True
AfterQuotaUnchecked(t) ==
    /\ api[t].pc = "quota" /\ th[t].pc = "idle" /\ th[t].result # "none"
    /\ QuotaOutcome(t, "true")
    /\ UNCHANGED <<quotas, tokens, last_refill, locks, clock, granted, keyed>>

\* if not self._check_quota(...): return; request.execute() and what follows
\* (lines 68-110, 129-140, 230-259)
AfterQuota(t) ==
    /\ api[t].pc = "quota" /\ th[t].pc = "idle" /\ th[t].result # "none"
    /\ QuotaOutcome(t, th[t].result)
    /\ UNCHANGED <<quotas, tokens, last_refill, locks, clock, granted, keyed>>

\* in the while loop of get_video_comments: if not self._check_quota(...):
\* break; response = request.execute(); the next page, or return comments
AfterPageQuota(t) ==
    LET me == api[t]
        res == th[t].result
        done == [me EXCEPT !.acquired = @ + 1, !.executed = @ + 1, !.pages = @ + 1]
    IN
    /\ me.pc = "page_quota" /\ th[t].pc = "idle" /\ res # "none"
    /\ CASE res = "raised" -> Step(t, Return(me, "empty"), th[t])
         [] res = "false" -> Step(t, Return(me, "comments"), th[t])
         [] res = "true" ->
              \E answer \in {"nextPageToken", "last", "HttpError"} :
                  IF answer = "nextPageToken" /\ done.pages < MaxPages
                  THEN Step(t, done, Request(t, "list_comments"))
                  ELSE Step(t, Return(done, IF answer = "HttpError" THEN "empty"
                                            ELSE "comments"), th[t])
    /\ UNCHANGED <<quotas, tokens, last_refill, locks, clock, granted, keyed>>

\* ------------------------------------------------------------- time

Tick ==
    /\ clock < MaxTime
    /\ clock' = clock + 1
    /\ UNCHANGED <<quotas, tokens, last_refill, locks, th, granted, keyed, api>>

Next ==
    \/ Tick
    \/ \E t \in Threads :
          \/ StartAcquire(t) \/ TryLock(t) \/ ReleaseAcquired(t)
          \/ WakeAfterLockFailure(t)
          \/ RefillNow(t) \/ RefillRead(t) \/ RefillWrite(t) \/ RefillStamp(t)
          \/ CheckTokens(t) \/ DeductRead(t) \/ DeductWrite(t)
          \/ CheckDeadline(t) \/ WakeAfterShortage(t)
          \/ FinallyRelease(t) \/ Finish(t)
          \/ StartStatus(t) \/ StatusLock(t) \/ StatusReport(t) \/ StatusRelease(t)

Spec == Init /\ [][Next]_vars

\* the steps of acquire alone
AcquireStep(t) ==
    \/ StartAcquire(t) \/ TryLock(t) \/ ReleaseAcquired(t)
    \/ WakeAfterLockFailure(t)
    \/ RefillNow(t) \/ RefillRead(t) \/ RefillWrite(t) \/ RefillStamp(t)
    \/ CheckTokens(t) \/ DeductRead(t) \/ DeductWrite(t)
    \/ CheckDeadline(t) \/ WakeAfterShortage(t)
    \/ FinallyRelease(t) \/ Finish(t)

NextAcquirers == Tick \/ \E t \in Threads : AcquireStep(t)

SpecAcquirers == InitAcquirers /\ [][NextAcquirers]_vars

\* with a single quota no try-lock fails after another one succeeded
NextOneQuota ==
    \/ Tick
    \/ \E t \in Threads :
          \/ StartAcquire(t) \/ TryLock(t) \/ WakeAfterLockFailure(t)
          \/ RefillNow(t) \/ RefillRead(t) \/ RefillWrite(t) \/ RefillStamp(t)
          \/ CheckTokens(t) \/ DeductRead(t) \/ DeductWrite(t)
          \/ CheckDeadline(t) \/ WakeAfterShortage(t)
          \/ FinallyRelease(t) \/ Finish(t)

SpecOneQuota == InitOneQuota /\ [][NextOneQuota]_vars

\* the single-key limiter alone: an object with an empty limiter attached by
\* its constructor, or with none; every thread makes MaxCalls calls
InitKeyed ==
    /\ InitLimiter(MultiQuotas, [t \in Threads |-> NoCalls])
    /\ buckets = <<>>
    /\ attached \in BOOLEAN
    /\ kt = [t \in Threads |-> IdleCaller(MaxCalls, Keys, KeyedRequests)]
    /\ last = NoOp
    /\ reads = <<>>
    /\ lock = 0
    /\ tally = NoTally
    /\ api = NoRequests

NextKeyed ==
    \/ Tick
    \/ \E t \in Threads :
          \/ CreateLimit(t) \/ CheckLimit(t) \/ GetRemainingTokens(t)
          \/ WrapperEnter(t) \/ WrapperAttach(t) \/ WrapperCreate(t) \/ WrapperCheck(t)

SpecKeyed == InitKeyed /\ [][NextKeyed]_vars

\* two threads of the client, one making MaxCalls requests and one a single one
InitClient ==
    /\ InitLimiter(ClientQuotas,
                   [t \in Threads |-> IF t = 1 THEN [acquire |-> MaxCalls, status |-> 0, tokens |-> {}]
                                      ELSE IF t = 2 THEN [acquire |-> 1, status |-> 0, tokens |-> {}]
                                      ELSE NoCalls])
    /\ NoKeyedCalls

NextClient ==
    \/ Tick
    \/ \E t \in Threads :
          \/ CheckQuota(t) \/ TryLock(t) \/ ReleaseAcquired(t)
          \/ WakeAfterLockFailure(t)
          \/ RefillNow(t) \/ RefillRead(t) \/ RefillWrite(t) \/ RefillStamp(t)
          \/ CheckTokens(t) \/ DeductRead(t) \/ DeductWrite(t)
          \/ CheckDeadline(t) \/ WakeAfterShortage(t)
          \/ FinallyRelease(t) \/ Finish(t)

SpecClient == InitClient /\ [][NextClient]_vars

\* refill observed through reads: thread 1 uses the multi-quota limiter
\* (one acquire, MaxCalls status reads), thread 2 a single-key limiter whose
\* constructor registered one bucket (check_limit and get_remaining_tokens)
InitRefill ==
    /\ InitLimiter(MultiQuotas,
                   [t \in Threads |-> IF t = 1 THEN [acquire |-> 1, status |-> MaxCalls, tokens |-> {1}]
                                      ELSE NoCalls])
    /\ \E capacity \in 1..MaxCap, refill_rate \in RefillRates :
          buckets = Put(<<>>, "extract_phrases", TokenBucket(capacity, refill_rate, 0))
    /\ attached = TRUE
    /\ kt = [t \in Threads |-> IF t = 2 THEN IdleCaller(MaxCalls + 1, {"extract_phrases"}, {1})
                                ELSE IdleCaller(0, {}, {})]
    /\ last = NoOp
    /\ reads = <<>>
    /\ lock = 0
    /\ tally = NoTally
    /\ api = NoRequests

\* a single thread on the multi-quota limiter never finds a lock held, and
\* its one acquire of one token finds every quota sufficient
NextRefill ==
    \/ Tick
    \/ \E t \in Threads :
          \/ StartAcquire(t) \/ TryLock(t)
          \/ RefillNow(t) \/ RefillRead(t) \/ RefillWrite(t) \/ RefillStamp(t)
          \/ CheckTokens(t) \/ DeductRead(t) \/ DeductWrite(t)
          \/ FinallyRelease(t) \/ Finish(t)
          \/ StartStatus(t) \/ StatusLock(t) \/ StatusReport(t) \/ StatusRelease(t)
          \/ CheckLimit(t) \/ GetRemainingTokens(t)

SpecRefill == InitRefill /\ [][NextRefill]_vars

\* token counts no caller should pass
NonPositive == -1..0

\* calls with a non-positive token count: thread 1 calls acquire on the
\* multi-quota limiter, thread 2 check_limit on a single-key limiter whose
\* constructor registered one bucket
InitMisuse ==
    /\ InitLimiter(MultiQuotas,
                   [t \in Threads |-> IF t = 1 THEN [acquire |-> MaxCalls, status |-> 0,
                                                     tokens |-> NonPositive]
                                      ELSE NoCalls])
    /\ \E capacity \in 1..MaxCap, refill_rate \in RefillRates :
          buckets = Put(<<>>, "extract_phrases", TokenBucket(capacity, refill_rate, 0))
    /\ attached = TRUE
    /\ kt = [t \in Threads |-> IF t = 2 THEN IdleCaller(MaxCalls, {"extract_phrases"}, NonPositive)
                                ELSE IdleCaller(0, {}, {})]
    /\ last = NoOp
    /\ reads = <<>>
    /\ lock = 0
    /\ tally = NoTally
    /\ api = NoRequests

\* a single thread on the multi-quota limiter never finds a lock held, and no
\* balance is below a non-positive request
NextMisuse ==
    \/ Tick
    \/ \E t \in Threads :
          \/ StartAcquire(t) \/ TryLock(t)
          \/ RefillNow(t) \/ RefillRead(t) \/ RefillWrite(t) \/ RefillStamp(t)
          \/ CheckTokens(t) \/ DeductRead(t) \/ DeductWrite(t)
          \/ FinallyRelease(t) \/ Finish(t)
          \/ CheckLimit(t)

SpecMisuse == InitMisuse /\ [][NextMisuse]_vars

\* every thread calls check_limit('extract_phrases', 1), get_remaining_tokens
\* and create_limit, MaxCalls calls in all, on a single-key limiter whose
\* constructor registered the bucket with a capacity below, at or above the
\* number of threads
InitContention ==
    /\ InitLimiter(MultiQuotas, [t \in Threads |-> NoCalls])
    /\ \E capacity \in 1..(MaxCap + 1), refill_rate \in RefillRates :
          buckets = Put(<<>>, "extract_phrases", TokenBucket(capacity, refill_rate, 0))
    /\ attached = TRUE
    /\ kt = [t \in Threads |-> IdleCaller(MaxCalls, {"extract_phrases"}, {1})]
    /\ last = NoOp
    /\ reads = <<>>
    /\ lock = 0
    /\ tally = NoTally
    /\ api = NoRequests

NextContention ==
    \/ Tick
    \/ \E t \in Threads :
          \/ EnterCheckLimit(t) \/ EnterGetRemainingTokens(t) \/ EnterCreateLimit(t)
          \/ LockedGet(t) \/ LockedRefill(t) \/ LockedCompare(t) \/ LockedDeduct(t)
          \/ LockedPut(t) \/ LockedExit(t)

SpecContention == InitContention /\ [][NextContention]_vars

\* two threads of the client, each calling one of its methods
InitMethods ==
    /\ InitLimiter(ClientQuotas, [t \in Threads |-> NoCalls])
    /\ buckets = <<>>
    /\ attached = FALSE
    /\ kt = [t \in Threads |-> IdleCaller(0, {}, {})]
    /\ last = NoOp
    /\ reads = <<>>
    /\ lock = 0
    /\ tally = NoTally
    /\ api = [t \in Threads |-> IF t <= 2 THEN IdleClient(1, Methods)
                                 ELSE IdleClient(0, {})]

NextMethods ==
    \/ Tick
    \/ \E t \in Threads :
          \/ CallMethod(t) \/ AfterQuota(t) \/ AfterPageQuota(t)
          \/ TryLock(t) \/ ReleaseAcquired(t) \/ WakeAfterLockFailure(t)
          \/ RefillNow(t) \/ RefillRead(t) \/ RefillWrite(t) \/ RefillStamp(t)
          \/ CheckTokens(t) \/ DeductRead(t) \/ DeductWrite(t)
          \/ CheckDeadline(t) \/ WakeAfterShortage(t)
          \/ FinallyRelease(t) \/ Finish(t)

SpecMethods == InitMethods /\ [][NextMethods]_vars

\* one more request than the per-second quota holds
Burst == ClientQuotas[2].tokens + 1

\* one thread calling get_video_metadata Burst times in a loop
InitBurst ==
    /\ InitLimiter(ClientQuotas, [t \in Threads |-> NoCalls])
    /\ buckets = <<>>
    /\ attached = FALSE
    /\ kt = [t \in Threads |-> IdleCaller(0, {}, {})]
    /\ last = NoOp
    /\ reads = <<>>
    /\ lock = 0
    /\ tally = NoTally
    /\ api = [t \in Threads |-> IF t = 1 THEN IdleClient(Burst, {"get_video_metadata"})
                                 ELSE IdleClient(0, {})]

\* a single thread never finds a lock held
NextBurst ==
    \/ Tick
    \/ \E t \in Threads :
          \/ CallMethod(t) \/ AfterQuota(t)
          \/ TryLock(t)
          \/ RefillNow(t) \/ RefillRead(t) \/ RefillWrite(t) \/ RefillStamp(t)
          \/ CheckTokens(t) \/ DeductRead(t) \/ DeductWrite(t)
          \/ CheckDeadline(t) \/ WakeAfterShortage(t)
          \/ FinallyRelease(t) \/ Finish(t)

SpecBurst == InitBurst /\ [][NextBurst]_vars

\* ------------------------------------------------------------ claims

Acquiring(t) == th[t].op = "acquire" /\ th[t].pc # "idle"
CallEnded(t) == th[t].pc = "idle" /\ th[t].result # "none"
AcquireEnded(t) == th[t].op = "acquire" /\ CallEnded(t)
Sleeping(t) == th[t].pc \in {"sleep_lock", "sleep_tokens"}

\* C1: when an acquire call consumes (every check has passed), every quota it
\* has not yet consumed from holds at least the requested tokens: success is
\* granted only on balances that all cover the request.
C1_SufficientWhenConsuming ==
    \A t \in Threads :
        th[t].pc = "deduct_read" =>
            \A q \in th[t].q..NQ : tokens[q] >= th[t].n * TokenUnit

\* C2: an acquire attempt that found a quota insufficient, and a call that
\* returns False, has deducted from no quota.
C2_NoDeductionOnFailure ==
    \A t \in Threads :
        (\/ th[t].pc \in {"deadline", "sleep_tokens"}
         \/ th[t].pending = "false"
         \/ th[t].result = "false") => th[t].deducted = 0

\* C2: a call is about to return False because the second quota was short
\* after the first one was found sufficient
C2_Witness ==
    \E t \in Threads :
        /\ th[t].pc = "finally" /\ th[t].pending = "false"
        /\ Len(th[t].acquired_locks) = NQ /\ th[t].q = 2
        /\ tokens[1] >= th[t].n * TokenUnit

\* less than one token has been refilled since construction
NoRefillWindow == \A q \in 1..NQ : NewTokens(q, clock) < TokenUnit

Succeeded == {t \in Threads : th[t].op = "acquire" /\ th[t].result = "true"}
AllEnded == \A t \in Threads : th[t].pc = "idle" /\ th[t].calls.acquire = 0

\* C3 as claimed: NThreads threads call acquire(1) on one quota of capacity C
\* with no refill; once all calls have ended, exactly C of them succeeded.
C3_ExactlyCapacity ==
    (NoRefillWindow /\ AllEnded /\ NThreads >= quotas[1].tokens)
        => Cardinality(Succeeded) = quotas[1].tokens

\* C3 amended: with no refill at most C calls succeed, and every call that
\* ended without success returned False.
C3_AtMostCapacity ==
    NoRefillWindow =>
        /\ Cardinality(Succeeded) <= quotas[1].tokens
        /\ \A t \in Threads : AcquireEnded(t) => th[t].result \in {"true", "false"}

\* C3: C calls have succeeded and another one has returned False
C3_Witness ==
    /\ NoRefillWindow /\ AllEnded
    /\ Cardinality(Succeeded) = quotas[1].tokens
    /\ \E t \in Threads : th[t].result = "false"

\* C4: every balance stays between 0 and the capacity of its quota.
C4_BoundInvariant ==
    \A q \in 1..NQ : tokens[q] >= 0 /\ tokens[q] <= Capacity(q)

\* C5: the tokens granted since construction never exceed, for any quota,
\* its capacity plus what it refills in the time elapsed.
C5_RateConformance ==
    \A q \in 1..NQ : granted * TokenUnit <= Capacity(q) + NewTokens(q, clock)

\* C6: acquire(tokens, timeout=0) makes a single attempt: it never sleeps.
C6_SingleAttempt ==
    \A t \in Threads : (Acquiring(t) /\ th[t].timeout = 0) => ~Sleeping(t)

\* C7: no acquire call ends with an exception.
C7_NeverRaises ==
    \A t \in Threads : AcquireEnded(t) => th[t].result # "raised"

\* C8: an acquire call with a positive timeout ends by returning: True, or
\* False once its deadline has passed.
C8_PositiveTimeoutReturns ==
    \A t \in Threads :
        (AcquireEnded(t) /\ th[t].timeout > 0) => th[t].result \in {"true", "false"}

\* C9: an acquire call with timeout=None ends only by returning True.
C9_NoTimeoutReturnsTrue ==
    \A t \in Threads :
        (AcquireEnded(t) /\ th[t].timeout = NoTimeout) => th[t].result = "true"

\* an acquire call that has consumed from some quotas and not yet from all
PartlyDeducted(t) == Acquiring(t) /\ th[t].deducted > 0 /\ th[t].deducted < NQ

\* an acquire call that is refilling, checking or consuming balances
InBalances(t) ==
    /\ Acquiring(t)
    /\ th[t].pc \in {"refill_now", "refill_read", "refill_write", "refill_stamp",
                     "check", "deduct_read", "deduct_write"}

\* C10: while one acquire call has consumed from some quotas and not yet from
\* the others, no other acquire call reads or writes a balance.
C10_AtomicDeduction ==
    \A t, u \in Threads : (t # u /\ PartlyDeducted(t)) => ~InBalances(u)

\* C10: a call is half way through its deduction while another acquire call
\* is running
C10_Witness ==
    \E t, u \in Threads : t # u /\ PartlyDeducted(t) /\ Acquiring(u)

\* thread t is inside the refill/check/deduct section of quota q: an acquire
\* call between its last try-lock and its finally block, at quota q; or a
\* get_quota_status call inside the with block of q
InSection(t, q) ==
    /\ th[t].q = q
    /\ th[t].pc \in {"refill_now", "refill_read", "refill_write", "refill_stamp",
                     "status_report", "check", "deduct_read", "deduct_write"}

\* C11: no two threads are inside the refill/check/deduct section of the same
\* quota at once, and a thread inside the section of a quota holds its lock.
C11_BucketMutualExclusion ==
    \A q \in 1..NQ :
        /\ \A t, u \in Threads : (t # u /\ InSection(t, q)) => ~InSection(u, q)
        /\ \A t \in Threads : InSection(t, q) => locks[q] = t

\* C12: no lock stays held for ever and every get_quota_status call returns.
\* As a property of states: when no call is running every lock is free, a
\* get_quota_status call that waits for a lock waits for a running call, and
\* no get_quota_status call ends with an exception.
C12_NoLockLeftHeld ==
    /\ (\A t \in Threads : th[t].pc = "idle") => \A q \in 1..NQ : locks[q] = 0
    /\ \A t \in Threads :
          (th[t].pc = "status_lock" /\ locks[th[t].q] # 0)
              => \E u \in Threads : u # t /\ th[u].pc # "idle"
    /\ \A t \in Threads :
          (th[t].op = "status" /\ CallEnded(t)) => th[t].result = "status"

\* no acquire call began or ran from the start of t's previous
\* get_quota_status call to now
NoAcquireBetween(t) ==
    \A u \in Threads :
        /\ th[t].prev_snap[u] >= 0
        /\ u # t => th[u].pc = "idle"
        /\ th[u].calls.acquire = th[t].prev_snap[u]

\* thread t has returned from a get_quota_status call that followed another
\* one with no acquisition in between
TwoQuietReads(t) ==
    /\ th[t].op = "status" /\ th[t].result = "status"
    /\ Len(th[t].prev) = NQ /\ Len(th[t].prev_snap) = NThreads
    /\ NoAcquireBetween(t)

\* the last operation was a get_remaining_tokens that followed another one for
\* the same key with no acquisition in between
TwoQuietKeyReads == last.op = "get_remaining_tokens" /\ last.since # NoRead

NoAcquireYet == \A u \in Threads : th[u].op # "acquire"

\* what quota q gains from its last refill to the time `now`
GainedBy(q, now) == IF now > last_refill[q] THEN NewTokens(q, now - last_refill[q]) ELSE 0

\* C14: the value get_quota_status writes to a balance is not below the
\* balance it overwrites (nothing is deducted) and not above that balance
\* refilled up to the time the call read; the status it returns has one entry
\* per quota with the configured max_tokens and refill_interval, and on a
\* limiter that no acquire has used every available_tokens is the capacity.
C14_StatusReadOnly ==
    \A t \in Threads :
        th[t].op = "status" =>
            /\ th[t].pc = "refill_write" =>
                  /\ th[t].val >= tokens[th[t].q]
                  /\ th[t].val <= Min(Capacity(th[t].q),
                                      tokens[th[t].q] + GainedBy(th[t].q, th[t].now))
            /\ th[t].result = "status" =>
                  /\ Len(th[t].status) = NQ
                  /\ \A q \in 1..NQ :
                        /\ th[t].status[q].max_tokens = quotas[q].tokens
                        /\ th[t].status[q].refill_interval = quotas[q].interval
                        /\ NoAcquireYet => th[t].status[q].available_tokens = Capacity(q)

\* the last operation was check_limit on a key that had a bucket
CheckedRegistered == last.op = "check_limit" /\ last.key \in DOMAIN last.pre

\* C15: check_limit on a registered key refills the bucket and then either
\* deducts exactly the tokens asked for and returns True, when the refilled
\* balance covers them, or returns False and leaves the refilled balance.
C15_CheckLimitSingleAttempt ==
    CheckedRegistered =>
        LET before == last.pre[last.key]
            refilled == Min(before.capacity * TokenUnit,
                            before.tokens + (last.at - before.last_refill) * before.refill_rate)
            after == buckets[last.key].tokens
        IN IF refilled >= last.n * TokenUnit
           THEN last.result = "true" /\ after = refilled - last.n * TokenUnit
           ELSE last.result = "false" /\ after = refilled

\* C15: a unit request is denied on a bucket emptied since its creation with
\* no time for a refill
C15_Witness ==
    /\ CheckedRegistered /\ last.n = 1 /\ last.result = "false"
    /\ last.pre[last.key].tokens = 0
    /\ last.pre[last.key].last_refill = last.at

\* the last operation was check_limit on a key that had no bucket
CheckedUnknown == last.op = "check_limit" /\ last.key \notin DOMAIN last.pre

\* C16: check_limit on a key that was never registered returns True, creates
\* no bucket and changes none.
C16_FailOpen == CheckedUnknown => (last.result = "true" /\ buckets = last.pre)

\* C16: an unknown key was admitted for more tokens than any bucket holds
\* while another key had a bucket
C16_Witness == CheckedUnknown /\ last.n = 2 /\ DOMAIN last.pre # {}

\* C17: after create_limit(key, capacity, refill_rate) the key's bucket is a
\* new one, full and stamped with the time of the call, whatever bucket the
\* key had before; the buckets of the other keys are as they were.
C17_CreateLimitReplaces ==
    last.op = "create_limit" =>
        /\ DOMAIN buckets = DOMAIN last.pre \cup {last.key}
        /\ buckets[last.key] = [capacity |-> last.n, refill_rate |-> last.value,
                                tokens |-> last.n * TokenUnit, last_refill |-> last.at]
        /\ \A k \in DOMAIN last.pre : k # last.key => buckets[k] = last.pre[k]

\* C17: a key whose bucket had been consumed from was registered again while
\* another key had a bucket
C17_Witness ==
    /\ last.op = "create_limit" /\ last.key \in DOMAIN last.pre
    /\ last.pre[last.key].tokens < last.pre[last.key].capacity * TokenUnit
    /\ DOMAIN last.pre # {last.key}

\* the last operation was the check of a decorated call
Decorated == last.op = "wrapper"

\* check_limit(key, tokens) admits the decorated call recorded in last
Admitted ==
    \/ last.key \notin DOMAIN last.pre
    \/ LET before == last.pre[last.key] IN
       Min(before.capacity * TokenUnit,
           before.tokens + (last.at - before.last_refill) * before.refill_rate)
           >= last.n * TokenUnit

\* a decorated call returns the wrapped function's result when check_limit
\* admits it and raises RateLimitExceeded without running the function when
\* not; the bucket it was checked against keeps its configuration
WrapperOutcome ==
    Decorated =>
        /\ last.result = IF Admitted THEN "returned" ELSE "RateLimitExceeded"
        /\ last.key \in DOMAIN last.pre =>
              /\ buckets[last.key].capacity = last.pre[last.key].capacity
              /\ buckets[last.key].refill_rate = last.pre[last.key].refill_rate

\* C18: a decorated call runs the wrapped function exactly when check_limit
\* admits it and raises RateLimitExceeded otherwise, and a call that finds a
\* limiter attached to the object goes straight to check_limit on that
\* limiter: it constructs no limiter and registers no default bucket.
C18_DecoratorGuards ==
    [][/\ WrapperOutcome'
       /\ \A t \in Threads :
             (kt[t].pc = "idle" /\ kt'[t].pc # "idle" /\ attached)
                 => (kt'[t].pc = "check" /\ buckets' = buckets /\ attached')]_vars

\* C18: a decorated call was refused on the bucket the object's constructor
\* had configured
C18_Witness ==
    /\ Decorated /\ last.result = "RateLimitExceeded"
    /\ last.pre[last.key].capacity # DefaultCapacity

\* the limiter was constructed by the wrapper: it holds a default bucket
DefaultLimiter == \E k \in DOMAIN last.pre : last.pre[k].capacity = DefaultCapacity

\* C19: on an object whose limiter the wrapper constructed, every decorated
\* call is checked against a bucket registered for its own key.
C19_DecoratedKeyRegistered ==
    (Decorated /\ DefaultLimiter) => last.key \in DOMAIN last.pre

\* C20: the client asks the limiter for the cost of the operation kind: 1 for
\* list_videos and list_comments, 100 for search_videos, and 1 for a kind the
\* cost table does not list.
C20_CostModel ==
    \A t \in Threads :
        th[t].operation # "none" =>
            /\ th[t].op = "acquire"
            /\ th[t].n = CASE th[t].operation = "list_videos" -> 1
                           [] th[t].operation = "list_comments" -> 1
                           [] th[t].operation = "search_videos" -> 100
                           [] OTHER -> 1

\* C20: an acquire call for a search and one for an unlisted kind are running
C20_Witness ==
    \E t, u \in Threads :
        /\ th[t].operation = "search_videos" /\ th[t].pc = "check"
        /\ th[u].operation = "list_channels" /\ th[u].pc # "idle"

\* the lock thread t's acquire call is about to release
Releasing(t) ==
    th[t].op = "acquire" /\ th[t].pc \in {"release_fail", "finally"}
        /\ th[t].i \in 1..Len(th[t].acquired_locks)

\* C25: a release in acquire is applied only to a lock the releasing thread
\* took and still holds: never to an unlocked lock, never to a lock another
\* thread holds, and so never twice to one lock of one attempt.
C25_ReleaseDiscipline ==
    \A t \in Threads :
        Releasing(t) => locks[th[t].acquired_locks[th[t].i]] = t

\* C26: a thread sleeping in acquire because tokens were short holds no
\* bucket lock.
C26_NoLockWhileSleeping ==
    \A t \in Threads :
        th[t].pc = "sleep_tokens" => \A q \in 1..NQ : locks[q] # t

\* C27: when an attempt holding all locks has found a bucket short, the
\* buckets after it have been refilled too: none of them has an older
\* last_refill than the short bucket.
C27_AllBucketsRefilled ==
    \A t \in Threads :
        th[t].pc = "deadline" =>
            \A q \in 1..NQ : q > th[t].q => last_refill[q] >= last_refill[th[t].q]

\* what a returned status shows as taken from quota q
ShownTaken(t, q) == Capacity(q) - th[t].status[q].available_tokens

\* C29: a status returned while no refill has added anything shows the same
\* deductions in every quota: each acquire is reflected in all of the
\* reported balances or in none.
C29_StatusSnapshot ==
    \A t \in Threads :
        (th[t].op = "status" /\ th[t].result = "status" /\ clock = 0) =>
            \A q, r \in 1..NQ : ShownTaken(t, q) = ShownTaken(t, r)

\* an acquire call with a non-positive token count has got somewhere
MisusedAcquire(t) ==
    th[t].op = "acquire" /\ th[t].n <= 0
        /\ (th[t].acquired_locks # <<>> \/ th[t].result = "true")

\* C24: a call with a non-positive token count is rejected before any lock is
\* taken: such an acquire takes no lock and never returns True, such a
\* check_limit is not admitted and leaves the buckets as they were, and no
\* balance is raised above its capacity.
C24_MisuseRejected ==
    /\ \A t \in Threads : ~MisusedAcquire(t)
    /\ \A q \in 1..NQ : tokens[q] <= Capacity(q)
    /\ (last.op = "check_limit" /\ last.n <= 0) =>
           (last.result = "false" /\ buckets = last.pre)

\* thread t's acquire for a search has just found quota q short
SearchShort(t, q) ==
    th[t].operation = "search_videos" /\ th[t].pc = "deadline" /\ th[t].q = q

\* C21: the acquire the client issues for a search can be granted: when it
\* finds a quota short, that quota is below its capacity, so that a refill
\* can still add the tokens the search is waiting for.
C21_SearchGrantable ==
    \A t \in Threads, q \in 1..NQ :
        SearchShort(t, q) => tokens[q] < Capacity(q)

\* thread t is inside a with block of the single-key limiter
InBody(t) == kt[t].pc \in Locked

\* no thread is inside the single-key limiter and no time has passed since
\* its bucket was created, so that no refill has added anything
QuietBucket(key) ==
    lock = 0 /\ key \in DOMAIN buckets /\ clock = tally.since
        /\ \A t \in Threads : ~InBody(t)

\* C28: the with blocks of check_limit, get_remaining_tokens and create_limit
\* exclude one another, and of the check_limit(key, 1) calls made on a bucket
\* of capacity C with no refill exactly min(calls, C) have returned True, each
\* deducted once from the bucket that is registered.
C28_KeyedContention ==
    /\ \A t \in Threads : InBody(t) => lock = t
    /\ \A key \in Keys :
          QuietBucket(key) =>
              /\ tally.admitted = Min(tally.checked, buckets[key].capacity)
              /\ buckets[key].tokens =
                     (buckets[key].capacity - tally.admitted) * TokenUnit

\* C28: every thread has called check_limit on a bucket with fewer tokens
\* than there are threads, and one call was refused; no refill has happened
C28_Witness ==
    /\ QuietBucket("extract_phrases")
    /\ tally.checked >= NThreads /\ tally.admitted < tally.checked
    /\ \A t \in Threads : kt[t].result \in {"true", "false"}

\* thread t's get_video_metadata is waiting in acquire for tokens to come
MetadataWaiting(t) ==
    api[t].method = "get_video_metadata" /\ api[t].pc = "quota"
        /\ th[t].pc = "sleep_tokens"

\* C22: a metadata request that finds the per-second quota used up is
\* denied: it does not wait inside acquire until the quota has refilled.
C22_ExcessDenied ==
    \A t \in Threads : ~MetadataWaiting(t)

\* thread t's method executes a remote call in the step
Executes(t) == api'[t].executed > api[t].executed

\* thread t's method takes a step after an acquire that did not return True
GoesOnUngranted(t) ==
    /\ api[t].pc # "idle" /\ api'[t] # api[t]
    /\ th[t].pc = "idle" /\ th[t].result \in {"false", "raised"}

\* C23: the client executes a remote call only in the step after an acquire
\* for the operation's cost has returned True; after an acquire that returned
\* False or raised it executes none and the method it was called by returns.
C23_ProceedOnlyOnSuccess ==
    [][\A t \in Threads :
          /\ Executes(t) =>
                 /\ th[t].pc = "idle" /\ th[t].result = "true"
                 /\ th[t].n = QuotaCost(th[t].operation)
                 /\ th[t].deducted = NQ
          /\ GoesOnUngranted(t) =>
                 /\ ~Executes(t)
                 /\ api'[t].pc = "idle"
                 /\ api'[t].returned \in {"empty", "comments", "raised"}]_vars

\* C23: one thread has fetched two pages of comments and the other's method
\* has ended without a remote call because its acquire raised
C23_Witness ==
    \E t, u \in Threads :
        /\ api[t].method = "get_video_comments" /\ api[t].executed = 2
        /\ api[u].executed = 0 /\ api[u].pc = "idle" /\ th[u].result = "raised"
        /\ api[u].returned \in {"empty", "raised"}

\* thread t's method call has returned after its argument passed validation
\* and none of its acquire calls raised
Returned(t) ==
    /\ api[t].pc = "idle" /\ api[t].returned \notin {"none", "invalid"}
    /\ th[t].result # "raised"

\* C30: when a method returns, the acquire calls that succeeded in it are as
\* many as the remote calls it executed: one acquire of cost(kind) per call,
\* and in get_video_comments one per page.
C30_AcquirePerRemoteCall ==
    \A t \in Threads :
        Returned(t) => api[t].acquired = api[t].executed

====
